---------------------------- MODULE Spec2Model ----------------------------
(***************************************************************************)
(* A model of odincontrib_aws/dynamodb/query.py: the operation builders    *)
(* (QueryBase, Scan, Query), the single page result (QueryResult) and the  *)
(* paging generator (PagedQueryResult.__iter__).                           *)
(*                                                                         *)
(* A Python dict is a function whose DOMAIN is the set of keys present.    *)
(* A call of next() on a generator is one action: the generator runs from  *)
(* where it was suspended to its next yield or to its end, fetching as     *)
(* many pages as the loop of lines 67-89 asks for on the way.              *)
(***************************************************************************)
EXTENDS Integers, Sequences, FiniteSets, TLC

VARIABLES
    ops,        \* the operation builders, by identity (1, 2, ...)
    heap,       \* the mutable objects, by reference: a builder's _params, a
                \* generator's params, the session
    cursors,    \* the PagedQueryResult objects, by identity
    gens,       \* gens[c]: the generator last obtained from cursor c
    singles,    \* the QueryResult objects returned by single()
    backend,    \* the pages the remote table holds, in order
    calls,      \* log of the remote calls made, oldest first
    err,        \* the exception raised by the last operation, or "none"
    last        \* the last operation: its name, the object it acted on, its argument

vars == <<ops, heap, cursors, gens, singles, backend, calls, err, last>>

---------------------------------------------------------------------------
(* Bounds of the model *)

MaxPages == 3

MaxItems == 2

MaxIters == 2

MaxCopies == 1

---------------------------------------------------------------------------
(* Values *)

None == "None"

NOT_PROVIDED == "NOT_PROVIDED"

EmptyDict == [k \in {} |-> None]

\* d[k] = v, as a dict assignment
DictSet(d, k, v) == [x \in (DOMAIN d) \cup {k} |-> IF x = k THEN v ELSE d[x]]

\* d.update(e)
DictUpdate(d, e) ==
    [x \in (DOMAIN d) \cup (DOMAIN e) |-> IF x \in DOMAIN e THEN e[x] ELSE d[x]]

\* d.get(k)
DictGet(d, k) == IF k \in DOMAIN d THEN d[k] ELSE None

RECURSIVE Concat(_)
Concat(ss) == IF ss = <<>> THEN <<>> ELSE Head(ss) \o Concat(Tail(ss))

RECURSIVE Sum(_)
Sum(ns) == IF ns = <<>> THEN 0 ELSE Head(ns) + Sum(Tail(ns))

---------------------------------------------------------------------------
(* The collaborators the module calls: table metadata, fields, the decoder *)
(* and the remote commands.                                                *)

\* The session, by reference; the object holds what table names resolve with.
TheSession == <<"session", 1>>

SessionObject == [prefix |-> "dev"]

HashField == [name |-> "pk", type |-> "S"]

RangeField == [name |-> "sk", type |-> "N"]

\* A table that declares a hash key and a range key, and one with a hash key only.
Tables ==
    { [cls |-> "Table", name |-> "events", key_fields |-> <<HashField, RangeField>>],
      [cls |-> "Table", name |-> "users", key_fields |-> <<HashField>>] }

TheTable == CHOOSE t \in Tables : Len(t.key_fields) = 2

\* An Index object: its name and the table it belongs to.
TheIndex == [cls |-> "Index", name |-> "by_sk", table |-> TheTable]

\* table._meta.table_name(session), for the session object as it is now
table_name(table, session) == <<session.prefix, table.name>>

\* field.prepare_dynamo(value): the value in DynamoDB's typed encoding
prepare_dynamo(f, v) == [t \in {f.type} |-> v]

\* create_resource_from_dict(item, table, copy_dict=False, full_clean=False)
create_resource_from_dict(item, table) == [resource |-> table.name, fields |-> item]

\* The continuation key the backend returns with page i, and the page it resumes at.
KeyNames == <<"k1", "k2", "k3", "k4", "k5", "k6">>

PageAfter(key) ==
    IF \E i \in DOMAIN KeyNames : KeyNames[i] = key
    THEN (CHOOSE i \in DOMAIN KeyNames : KeyNames[i] = key) + 1
    ELSE 0

\* Page i of n, holding cnt items, with extra records scanned and not returned.
Page(i, n, cnt, extra) ==
    LET base == [Items |-> [j \in 1..cnt |-> [page |-> i, pos |-> j]],
                 Count |-> cnt,
                 ScannedCount |-> cnt + extra,
                 ConsumedCapacity |-> "cc"]
    IN  IF i < n THEN DictSet(base, "LastEvaluatedKey", KeyNames[i]) ELSE base

Backends ==
    { [i \in 1..n |-> Page(i, n, counts[i], extra)] :
        <<n, counts, extra>> \in
            UNION { {n} \X [1..n -> 0..MaxItems] \X {0, 1} : n \in 1..MaxPages } }

\* session.client.scan(**params) / session.client.query(**params): the page that
\* follows ExclusiveStartKey, or the first page when the request carries none.
\* The client validates the request: an ExclusiveStartKey that is None, or that
\* the table never returned, is refused with an exception.
\* A page the backend cannot serve is held as {Error: <the exception>}, and the
\* command raises it.
Answer(page) ==
    IF "Error" \in DOMAIN page
    THEN [ok |-> FALSE, error |-> page["Error"]]
    ELSE [ok |-> TRUE, response |-> page]

Command(params) ==
    IF "ExclusiveStartKey" \notin DOMAIN params
    THEN Answer(backend[1])
    ELSE IF PageAfter(params["ExclusiveStartKey"]) \in DOMAIN backend
    THEN Answer(backend[PageAfter(params["ExclusiveStartKey"])])
    ELSE [ok |-> FALSE, error |-> "ParamValidationError"]

---------------------------------------------------------------------------
(* QueryBase, Scan, Query: construction.  A constructor takes its          *)
(* positional arguments as a sequence and answers [ok, op] or [ok, error]. *)

\* The isinstance test of line 99.
IsIndex(table_of_index) == table_of_index.cls = "Index"

\* QueryBase.__init__(self, session, table_of_index); ref is the new _params dict.
\* An absent index (None) is the empty sequence, an Index object a sequence of one.
QueryBase_init(args, ref) ==
    IF Len(args) # 2
    THEN [ok |-> FALSE, error |-> "TypeError"]
    ELSE [ok |-> TRUE,
          op |-> [session |-> args[1],
                  table |-> IF IsIndex(args[2]) THEN args[2].table ELSE args[2],
                  index |-> IF IsIndex(args[2]) THEN <<args[2]>> ELSE <<>>,
                  expression_attributes |-> EmptyDict,
                  params |-> ref,
                  command |-> None]]

\* Scan.__init__(self, *args)
Scan_init(args, ref) ==
    LET base == QueryBase_init(args, ref)
    IN  IF base.ok
        THEN [ok |-> TRUE,
              op |-> [base.op EXCEPT !.command = "scan"] @@ [kind |-> "Scan"]]
        ELSE base

\* Query.__init__(self, hash_value, *args)
Query_init(args, ref) ==
    IF Len(args) < 1
    THEN [ok |-> FALSE, error |-> "TypeError"]
    ELSE LET base == QueryBase_init(Tail(args), ref)
         IN  IF base.ok
             THEN [ok |-> TRUE,
                   op |-> [base.op EXCEPT !.command = "query"] @@
                          [kind |-> "Query",
                           hash_value |-> Head(args),
                           range_value |-> NOT_PROVIDED]]
             ELSE base

\* cls(*args): the constructor of the class
Construct(kind, args, ref) ==
    IF kind = "Query" THEN Query_init(args, ref) ELSE Scan_init(args, ref)

\* The reference of the _params dict of the builder with identity o.
ParamsRef(o) == <<"op", o>>

\* A variant in which every generator works on one and the same dict.
GenRef_shared(c) == <<"gen", 0>>

\* The reference of the params dict local to the generator of cursor c.
GenRef(c) == <<"gen", c>>

---------------------------------------------------------------------------
(* QueryBase._get_params / Query._get_params: both write into the          *)
(* builder's own dict and return it (by reference).                        *)

\* A variant of lines 113-118 that resolves the table name once, the first
\* time the builder is executed, and keeps it.
QueryBase_get_params_keepName(op, h) ==
    LET h1 == IF "TableName" \in DOMAIN h[op.params]
              THEN h
              ELSE [h EXCEPT ![op.params] =
                       DictSet(@, "TableName", table_name(op.table, h[op.session]))]
    IN  IF op.index # <<>>
        THEN [h1 EXCEPT ![op.params] = DictSet(@, "IndexName", op.index[1].name)]
        ELSE h1

QueryBase_get_params(op, h) ==
    LET h1 == [h EXCEPT ![op.params] =
                  DictSet(@, "TableName", table_name(op.table, h[op.session]))]
    IN  IF op.index # <<>>
        THEN [h1 EXCEPT ![op.params] = DictSet(@, "IndexName", op.index[1].name)]
        ELSE h1

\* A variant of lines 242-245 without the filter on NOT_PROVIDED.
KeyConditions_keepAll(op) ==
    LET key_fields == op.table.key_fields
        key_values == <<op.hash_value, op.range_value>>
        n == IF Len(key_fields) < Len(key_values) THEN Len(key_fields) ELSE Len(key_values)
    IN  [name \in { key_fields[i].name : i \in 1..n } |->
            LET i == CHOOSE j \in 1..n : key_fields[j].name = name
            IN  [AttributeValueList |-> <<prepare_dynamo(key_fields[i], key_values[i])>>]]

\* The dict comprehension of lines 242-245 over zip(key_fields, key_values).
KeyConditions(op) ==
    LET key_fields == op.table.key_fields
        key_values == <<op.hash_value, op.range_value>>
        n == IF Len(key_fields) < Len(key_values) THEN Len(key_fields) ELSE Len(key_values)
        kept == { i \in 1..n : key_values[i] # NOT_PROVIDED }
    IN  [name \in { key_fields[i].name : i \in kept } |->
            LET i == CHOOSE j \in kept : key_fields[j].name = name /\
                        \A k \in kept : key_fields[k].name = name => k <= j
            IN  [AttributeValueList |-> <<prepare_dynamo(key_fields[i], key_values[i])>>]]

Query_get_params(op, h) ==
    LET h1 == QueryBase_get_params(op, h)
    IN  [h1 EXCEPT ![op.params] = DictSet(@, "KeyConditions", KeyConditions(op))]

\* self._get_params(): the heap after the call; the dict returned is h[op.params].
get_params(op, h) ==
    IF op.kind = "Query" THEN Query_get_params(op, h) ELSE QueryBase_get_params(op, h)

---------------------------------------------------------------------------
(* QueryResult: one page.  r.query is the builder's identity, r.result the *)
(* response of the remote command.                                         *)

QueryResult_init(query, result) == [query |-> query, result |-> result]

raw_results(r) == r.result["Items"]

count(r) == r.result["Count"]

scanned(r) == r.result["ScannedCount"]

last_evaluated_key(r) == DictGet(r.result, "LastEvaluatedKey")

\* A variant of QueryResult.__iter__ that walks the page from its end.
QueryResult_iter_reversed(r, table) ==
    [i \in 1..Len(raw_results(r)) |->
        create_resource_from_dict(raw_results(r)[Len(raw_results(r)) + 1 - i], table)]

\* QueryResult.__iter__, consumed to its end: the decoded items, in order.
QueryResult_iter(r, table) ==
    [i \in 1..Len(raw_results(r)) |-> create_resource_from_dict(raw_results(r)[i], table)]

\* QueryResult.__len__
QueryResult_len(r) == count(r)

---------------------------------------------------------------------------
(* PagedQueryResult and its generator.                                     *)

PagedQueryResult_init(query) ==
    [query |-> query, pages |-> 0, count |-> 0, scanned |-> 0, last_page |-> FALSE]

\* No generator was obtained from the cursor yet.
NoGen(c) ==
    [pc |-> "none", cursor |-> c, n |-> 0, reiter |-> FALSE, params |-> GenRef(c),
     results |-> QueryResult_init(0, EmptyDict), idx |-> 0,
     out |-> <<>>, fetched |-> <<>>]

\* The generator object iter(cursor) returns: no line of the body has run.
\* n counts the generators obtained from the cursor; reiter records that the
\* one before it had run to its end.  out and fetched are the history of this
\* generator: what it yielded, and each request it made with its response.
NewGen(c, old) ==
    [NoGen(c) EXCEPT !.pc = "created", !.n = old.n + 1, !.reiter = (old.pc = "done")]

\* A variant of line 65 without the copy: the generator works on the dict of
\* the builder.
SnapshotParams_alias(M, op) ==
    LET h1 == get_params(op, M.h)
    IN  [M EXCEPT !.h = h1, !.gen.params = op.params]

\* Line 65: params = query._get_params().copy(), held in the generator's own dict.
SnapshotParams(M, op) ==
    LET h1 == get_params(op, M.h)
    IN  [M EXCEPT !.h = DictSet(h1, M.gen.params, h1[op.params])]

\* A variant of line 76 with the test inverted.
IsLastPage_inverted(results) == last_evaluated_key(results) # None

\* Line 76
IsLastPage(results) == last_evaluated_key(results) = None

\* A variant of lines 72-76 that adds the page's Count to both totals.
UpdateStats_countTwice(cur, results) ==
    [cur EXCEPT !.pages = @ + 1,
                !.count = @ + count(results),
                !.scanned = @ + count(results),
                !.last_page = IsLastPage(results)]

\* A variant of lines 72-76 that takes an empty page for the last one.
UpdateStats_emptyEnds(cur, results) ==
    [cur EXCEPT !.pages = @ + 1,
                !.count = @ + count(results),
                !.scanned = @ + scanned(results),
                !.last_page = IsLastPage(results) \/ count(results) = 0]

\* Lines 72-76: the statistics of the cursor after a page.
UpdateStats(cur, results) ==
    [cur EXCEPT !.pages = @ + 1,
                !.count = @ + count(results),
                !.scanned = @ + scanned(results),
                !.last_page = IsLastPage(results)]

\* A variant of line 89 that keeps a start key the request already carries.
NextParams_keepFirst(params, results) ==
    IF "ExclusiveStartKey" \in DOMAIN params
    THEN params
    ELSE DictSet(params, "ExclusiveStartKey", last_evaluated_key(results))

\* Line 89
NextParams(params, results) ==
    DictSet(params, "ExclusiveStartKey", last_evaluated_key(results))

\* An entry of the log of calls: the command, the builder and the cursor it was
\* made through (0: through single()), the request, and the table name the
\* session resolved to when the call was made.
CallRecord(op, o, c, via, params, h) ==
    [command |-> op.command, op |-> o, cursor |-> c, via |-> via, params |-> params,
     bound |-> table_name(op.table, h[op.session])]

\* A variant of lines 68-76 that repeats a call the backend refused before it
\* lets the exception out.
FetchPage_retry(M, op) ==
    LET params == M.h[M.gen.params]
        answer == Command(params)
        results == QueryResult_init(M.cur.query, answer.response)
        issued == Append(M.calls, CallRecord(op, M.cur.query, M.gen.cursor, "paged",
                                             params, M.h))
    IN  IF answer.ok
        THEN [M EXCEPT !.calls = issued,
                       !.cur = UpdateStats(@, results),
                       !.gen.results = results,
                       !.gen.fetched = Append(@, [params |-> params,
                                                  response |-> answer.response,
                                                  bound |-> table_name(op.table,
                                                                       M.h[op.session])])]
        ELSE [M EXCEPT !.calls = Append(issued, issued[Len(issued)]),
                       !.gen.pc = "failed", !.error = answer.error]

\* A variant of lines 68-76 that counts the page before the call is made, so a
\* refused call is counted too.
FetchPage_countsFailure(M, op) ==
    LET params == M.h[M.gen.params]
        answer == Command(params)
        results == QueryResult_init(M.cur.query, answer.response)
        issued == Append(M.calls, CallRecord(op, M.cur.query, M.gen.cursor, "paged",
                                             params, M.h))
    IN  IF answer.ok
        THEN [M EXCEPT !.calls = issued,
                       !.cur = UpdateStats(@, results),
                       !.gen.results = results,
                       !.gen.fetched = Append(@, [params |-> params,
                                                  response |-> answer.response,
                                                  bound |-> table_name(op.table,
                                                                       M.h[op.session])])]
        ELSE [M EXCEPT !.calls = issued, !.cur.pages = @ + 1,
                       !.gen.pc = "failed", !.error = answer.error]

\* Lines 68-76: one remote call and the statistics.  An exception of the command
\* leaves the generator: it is finished, and the statistics are as they were.
FetchPage(M, op) ==
    LET params == M.h[M.gen.params]
        answer == Command(params)
        results == QueryResult_init(M.cur.query, answer.response)
        issued == Append(M.calls, CallRecord(op, M.cur.query, M.gen.cursor, "paged",
                                             params, M.h))
    IN  IF answer.ok
        THEN [M EXCEPT !.calls = issued,
                       !.cur = UpdateStats(@, results),
                       !.gen.results = results,
                       !.gen.fetched = Append(@, [params |-> params,
                                                  response |-> answer.response,
                                                  bound |-> table_name(op.table,
                                                                       M.h[op.session])])]
        ELSE [M EXCEPT !.calls = issued, !.gen.pc = "failed", !.error = answer.error]

\* Lines 67-89 from the for loop on: the loop over the page resumed at item i
\* (line 79), then the test of line 83 and either the end of the generator or
\* the next turn of the while loop.  The while loop is unrolled at most once
\* more than the backend has pages; a run cut there is left at pc = "overrun".
RECURSIVE Emit(_, _, _)
Emit(M, op, i) ==
    LET items == QueryResult_iter(M.gen.results, op.table)
    IN  IF M.gen.pc = "failed"
        THEN M
        ELSE IF i <= Len(items)
        THEN [M EXCEPT !.gen.pc = "yielded", !.gen.idx = i,
                       !.gen.out = Append(@, items[i])]
        ELSE IF M.cur.last_page
        THEN [M EXCEPT !.gen.pc = "done", !.error = "StopIteration"]
        ELSE IF Len(M.gen.fetched) > Len(backend)
        THEN [M EXCEPT !.gen.pc = "overrun"]
        ELSE LET M1 == [M EXCEPT !.h[M.gen.params] = NextParams(@, M.gen.results)]
             IN  Emit(FetchPage(M1, op), op, 1)

\* A variant of next(gen) that, having yielded the last item of a page, fetches
\* the page that follows before the consumer asks for more.
Resume_prefetch(M, op) ==
    LET R == IF M.gen.pc = "created"
             THEN Emit(FetchPage(SnapshotParams(M, op), op), op, 1)
             ELSE Emit(M, op, M.gen.idx + 1)
        ahead == FetchPage([R EXCEPT !.h[R.gen.params] = NextParams(@, R.gen.results)], op)
    IN  IF /\ R.gen.pc = "yielded"
           /\ R.gen.idx = Len(QueryResult_iter(R.gen.results, op.table))
           /\ ~R.cur.last_page
        THEN [ahead EXCEPT !.gen.idx = 0]
        ELSE R

\* A variant of next(gen) that leaves the continuation key of the generator
\* in the dict of the builder as well.
Resume_writeBack(M, op) ==
    LET R == IF M.gen.pc = "created"
             THEN Emit(FetchPage(SnapshotParams(M, op), op), op, 1)
             ELSE Emit(M, op, M.gen.idx + 1)
        sent == R.h[R.gen.params]
    IN  IF "ExclusiveStartKey" \in DOMAIN sent
        THEN [R EXCEPT !.h[op.params] =
                 DictSet(@, "ExclusiveStartKey", sent["ExclusiveStartKey"])]
        ELSE R

\* next(gen): from the start of the body (lines 64-65, then the loop), or from
\* the yield of line 80 where the generator was suspended.
Resume(M, op) ==
    IF M.gen.pc = "created"
    THEN Emit(FetchPage(SnapshotParams(M, op), op), op, 1)
    ELSE Emit(M, op, M.gen.idx + 1)

---------------------------------------------------------------------------
(* Actions *)

Did(name, id, arg, error) ==
    /\ last' = [name |-> name, id |-> id, arg |-> arg]
    /\ err' = error

\* iter(cursor): PagedQueryResult.__iter__ is a generator function, so the call
\* returns a new generator and runs nothing.  The caller keeps one generator per
\* cursor: the one it had, if any, is dropped.
PagedIter(c) ==
    /\ c \in DOMAIN cursors
    /\ gens[c].n < MaxIters
    /\ gens' = [gens EXCEPT ![c] = NewGen(c, @)]
    /\ Did("iter", c, "", "none")
    /\ UNCHANGED <<ops, heap, cursors, singles, backend, calls>>

\* next(gen) on the generator of cursor c.
Pull(c) ==
    /\ c \in DOMAIN cursors
    /\ gens[c].pc \in {"created", "yielded"}
    /\ LET op == ops[cursors[c].query]
           M == Resume([h |-> heap, cur |-> cursors[c], gen |-> gens[c],
                        calls |-> calls, error |-> "none"], op)
       IN  /\ heap' = M.h
           /\ cursors' = [cursors EXCEPT ![c] = M.cur]
           /\ gens' = [gens EXCEPT ![c] = M.gen]
           /\ calls' = M.calls
           /\ Did("next", c, "", M.error)
    /\ UNCHANGED <<ops, singles, backend>>

\* next(gen) on a generator that has ended, by its last line or by an
\* exception: StopIteration, and nothing runs.
PullExhausted(c) ==
    /\ c \in DOMAIN cursors
    /\ gens[c].pc \in {"done", "failed"}
    /\ Did("next", c, "", "StopIteration")
    /\ UNCHANGED <<ops, heap, cursors, gens, singles, backend, calls>>

---------------------------------------------------------------------------
(* Paging: one builder, a Scan or a Query, and the cursor all() returned.  *)

\* The heap after the construction of the first builder.
InitHeap ==
    DictSet(DictSet(EmptyDict, TheSession, SessionObject), ParamsRef(1), EmptyDict)

NewOp(kind, table_of_index, o) ==
    Construct(kind,
              IF kind = "Query" THEN <<"h1", TheSession, table_of_index>>
                                ELSE <<TheSession, table_of_index>>,
              ParamsRef(o)).op

InitPaged ==
    /\ \E kind \in {"Scan", "Query"} : ops = <<NewOp(kind, TheTable, 1)>>
    /\ heap = InitHeap
    /\ cursors = <<PagedQueryResult_init(1)>>
    /\ gens = <<NoGen(1)>>
    /\ singles = <<>>
    /\ backend \in Backends
    /\ calls = <<>>
    /\ err = "none"
    /\ last = [name |-> "all", id |-> 1, arg |-> ""]

NextPaged ==
    \/ \E c \in DOMAIN cursors : PagedIter(c)
    \/ \E c \in DOMAIN cursors : Pull(c)
    \/ \E c \in DOMAIN cursors : PullExhausted(c)

SpecPaged == InitPaged /\ [][NextPaged]_vars

---------------------------------------------------------------------------
(* Single page execution: one builder, a Scan or a Query against a table   *)
(* or an index, executed with single(); the results are read any number of *)
(* times.                                                                  *)

\* A variant of single() that follows the continuation key of the response
\* with a second call.
single_followKey(o, h, cl) ==
    LET op == ops[o]
        h1 == get_params(op, h)
        params == h1[op.params]
        first == Command(params)
        issued == Append(cl, CallRecord(op, o, 0, "single", params, h1))
        more == DictSet(params, "ExclusiveStartKey", first.response["LastEvaluatedKey"])
    IN  IF first.ok /\ "LastEvaluatedKey" \in DOMAIN first.response
        THEN [h |-> h1, ok |-> TRUE,
              calls |-> Append(issued, CallRecord(op, o, 0, "single", more, h1)),
              result |-> QueryResult_init(o, Command(more).response)]
        ELSE IF first.ok
        THEN [h |-> h1, calls |-> issued, ok |-> TRUE,
              result |-> QueryResult_init(o, first.response)]
        ELSE [h |-> h1, calls |-> issued, ok |-> FALSE, error |-> first.error]

\* QueryBase.single(self): _get_params writes into the builder's dict, the dict
\* is unpacked into the one call of the command, and the response is wrapped.
single(o, h, cl) ==
    LET op == ops[o]
        h1 == get_params(op, h)
        params == h1[op.params]
        answer == Command(params)
        issued == Append(cl, CallRecord(op, o, 0, "single", params, h1))
    IN  IF answer.ok
        THEN [h |-> h1, calls |-> issued, ok |-> TRUE,
              result |-> QueryResult_init(o, answer.response)]
        ELSE [h |-> h1, calls |-> issued, ok |-> FALSE, error |-> answer.error]

\* op.single().  A result is kept with the number of times it was read and
\* what its last iteration yielded.
Single(o) ==
    /\ o \in DOMAIN ops
    /\ Len(singles) < MaxIters
    /\ LET r == single(o, heap, calls)
       IN  /\ heap' = r.h
           /\ calls' = r.calls
           /\ singles' = IF r.ok
                          THEN Append(singles, [obj |-> r.result, reads |-> 0, seen |-> <<>>])
                          ELSE singles
           /\ Did("single", o, "", IF r.ok THEN "none" ELSE r.error)
    /\ UNCHANGED <<ops, cursors, gens, backend>>

\* list(result): QueryResult.__iter__ run to its end.
ResultIter(r) ==
    /\ r \in DOMAIN singles
    /\ singles[r].reads < MaxIters
    /\ singles' = [singles EXCEPT
                      ![r].reads = @ + 1,
                      ![r].seen = QueryResult_iter(singles[r].obj,
                                                   ops[singles[r].obj.query].table)]
    /\ Did("result_iter", r, "", "none")
    /\ UNCHANGED <<ops, heap, cursors, gens, backend, calls>>

\* len(result), result.count, result.scanned, result.last_evaluated_key: reads of
\* the response held by the result.
ResultLen(r) ==
    /\ r \in DOMAIN singles
    /\ singles[r].reads < MaxIters
    /\ singles' = [singles EXCEPT ![r].reads = @ + 1]
    /\ Did("result_len", r, "", "none")
    /\ UNCHANGED <<ops, heap, cursors, gens, backend, calls>>

\* Query.range(self, value)
range(op, value) == [op EXCEPT !.range_value = value]

Range(o, value) ==
    /\ o \in DOMAIN ops
    /\ ops[o].kind = "Query"
    /\ ops' = [ops EXCEPT ![o] = range(@, value)]
    /\ Did("range", o, value, "none")
    /\ UNCHANGED <<heap, cursors, gens, singles, backend, calls>>

RangeValues == {"r1"}

\* single() sees the first page only: the backends of one page, and those of
\* two pages that differ in the first.
SinglePageBackends ==
    { b \in Backends : Len(b) = 1 \/ (Len(b) = 2 /\ b[2]["Count"] = 0) }

InitSingle ==
    /\ \E kind \in {"Scan", "Query"}, t \in Tables \cup {TheIndex} :
            ops = <<NewOp(kind, t, 1)>>
    /\ heap = InitHeap
    /\ cursors = <<>>
    /\ gens = <<>>
    /\ singles = <<>>
    /\ backend \in SinglePageBackends
    /\ calls = <<>>
    /\ err = "none"
    /\ last = [name |-> "init", id |-> 1, arg |-> ""]

NextSingle ==
    \/ \E o \in DOMAIN ops : Single(o)
    \/ \E r \in DOMAIN singles : ResultIter(r)
    \/ \E r \in DOMAIN singles : ResultLen(r)
    \/ \E o \in DOMAIN ops, v \in RangeValues : Range(o, v)

SpecSingle == InitSingle /\ [][NextSingle]_vars

---------------------------------------------------------------------------
(* Configuration: the fluent methods of QueryBase.  Each answers the heap  *)
(* after the call, and whether it raised.                                  *)

\* QueryBase.limit(self, value)
limit(op, value, h) ==
    [ok |-> TRUE, h |-> [h EXCEPT ![op.params] = DictSet(@, "Limit", value)]]

\* A variant of select that stores the value before it validates it.
select_storeFirst(op, value, h) ==
    IF value \in {"ALL_ATTRIBUTES", "ALL_PROJECTED_ATTRIBUTES", "COUNT", "SPECIFIC_ATTRIBUTES"}
    THEN [ok |-> TRUE, h |-> [h EXCEPT ![op.params] = DictSet(@, "Select", value)]]
    ELSE [ok |-> FALSE, error |-> "AssertionError",
          h |-> [h EXCEPT ![op.params] = DictSet(@, "Select", value)]]

\* QueryBase.select(self, value='ALL_ATTRIBUTES'): the assert of line 190, then
\* the assignment.
select(op, value, h) ==
    IF value \in {"ALL_ATTRIBUTES", "ALL_PROJECTED_ATTRIBUTES", "COUNT", "SPECIFIC_ATTRIBUTES"}
    THEN [ok |-> TRUE, h |-> [h EXCEPT ![op.params] = DictSet(@, "Select", value)]]
    ELSE [ok |-> FALSE, error |-> "AssertionError", h |-> h]

\* QueryBase.consumed_capacity(self, value='TOTAL'): the assert of line 210, then
\* the assignment.
consumed_capacity(op, value, h) ==
    IF value \in {"INDEXES", "TOTAL", "NONE"}
    THEN [ok |-> TRUE,
          h |-> [h EXCEPT ![op.params] = DictSet(@, "ReturnConsumedCapacity", value)]]
    ELSE [ok |-> FALSE, error |-> "AssertionError", h |-> h]

\* QueryBase.params(self, **params)
params(op, kw, h) ==
    [ok |-> TRUE, h |-> [h EXCEPT ![op.params] = DictUpdate(@, kw)]]

\* A variant of copy that hands the new builder the dict of the original.
copy_shared(o, h) ==
    LET op == ops[o]
        new == Construct(op.kind, <<op.session, op.table>>, op.params)
    IN  IF new.ok
        THEN [ok |-> TRUE, op |-> new.op, h |-> h]
        ELSE [ok |-> FALSE, error |-> new.error, h |-> h]

\* QueryBase.copy(self): a new object of the same class, constructed from the
\* session and the table, then given a copy of the dict of the original.
copy(o, h) ==
    LET op == ops[o]
        ref == ParamsRef(Len(ops) + 1)
        new == Construct(op.kind, <<op.session, op.table>>, ref)
    IN  IF new.ok
        THEN [ok |-> TRUE, op |-> new.op, h |-> DictSet(h, ref, h[op.params])]
        ELSE [ok |-> FALSE, error |-> new.error, h |-> h]

\* A configuration call on builder o with result r.
Configured(name, o, arg, r) ==
    /\ heap' = r.h
    /\ Did(name, o, arg, IF r.ok THEN "none" ELSE r.error)
    /\ UNCHANGED <<ops, cursors, gens, singles, backend, calls>>

Limit(o, value) ==
    /\ o \in DOMAIN ops
    /\ Configured("limit", o, "", limit(ops[o], value, heap))

Select(o, value) ==
    /\ o \in DOMAIN ops
    /\ Configured("select", o, value, select(ops[o], value, heap))

ConsumedCapacity(o, value) ==
    /\ o \in DOMAIN ops
    /\ Configured("consumed_capacity", o, value, consumed_capacity(ops[o], value, heap))

Params(o, kw) ==
    /\ o \in DOMAIN ops
    /\ Configured("params", o, "", params(ops[o], kw, heap))

Copy(o) ==
    /\ o \in DOMAIN ops
    /\ Len(ops) <= MaxCopies
    /\ LET r == copy(o, heap)
       IN  /\ ops' = IF r.ok THEN Append(ops, r.op) ELSE ops
           /\ heap' = r.h
           /\ Did("copy", o, "", IF r.ok THEN "none" ELSE r.error)
    /\ UNCHANGED <<cursors, gens, singles, backend, calls>>

\* The values select and consumed_capacity are tried with: every value of
\* the two enumerations, and values outside them.
SelectArgs ==
    {"ALL_ATTRIBUTES", "ALL_PROJECTED_ATTRIBUTES", "COUNT", "SPECIFIC_ATTRIBUTES",
     "count", "TOTAL", ""}

CapacityArgs == {"INDEXES", "TOTAL", "NONE", "total", "COUNT", ""}

InitConfig ==
    /\ \E kind \in {"Scan", "Query"}, t \in {TheTable, TheIndex} :
            ops = <<NewOp(kind, t, 1)>>
    /\ heap = InitHeap
    /\ cursors = <<>>
    /\ gens = <<>>
    /\ singles = <<>>
    /\ backend \in { b \in Backends : Len(b) = 1 /\ b[1]["Count"] = 0 }
    /\ calls = <<>>
    /\ err = "none"
    /\ last = [name |-> "init", id |-> 1, arg |-> ""]

NextConfig ==
    \/ \E o \in DOMAIN ops, v \in {1, 2} : Limit(o, v)
    \/ \E o \in DOMAIN ops, v \in SelectArgs : Select(o, v)
    \/ \E o \in DOMAIN ops, v \in CapacityArgs : ConsumedCapacity(o, v)
    \/ \E o \in DOMAIN ops,
          kw \in {[Limit |-> 5], [ExclusiveStartKey |-> "k1"]} : Params(o, kw)

SpecConfig == InitConfig /\ [][NextConfig]_vars

\* Copies: a builder, its copies, and configuration calls on any of them.
NextCopy ==
    \/ \E o \in DOMAIN ops : Copy(o)
    \/ \E o \in DOMAIN ops : Limit(o, 1)
    \/ \E o \in DOMAIN ops, v \in {"COUNT", "count"} : Select(o, v)
    \/ \E o \in DOMAIN ops : ConsumedCapacity(o, "TOTAL")
    \/ \E o \in DOMAIN ops : Params(o, [Limit |-> 5])

SpecCopy == InitConfig /\ [][NextCopy]_vars

---------------------------------------------------------------------------
(* Properties of paging, checked under SpecPaged *)

\* The decoded items of all the pages of the backend, in page order.
AllItems(table) ==
    Concat([i \in DOMAIN backend |->
              [j \in DOMAIN backend[i]["Items"] |->
                  create_resource_from_dict(backend[i]["Items"][j], table)]])

IsPrefix(s, t) == Len(s) <= Len(t) /\ s = SubSeq(t, 1, Len(s))

TableOf(c) == ops[cursors[c].query].table

HasKey(response) == "LastEvaluatedKey" \in DOMAIN response

\* C1: what a generator of a PagedQueryResult has yielded is at every moment a
\* prefix of the concatenation of the pages' Items in page order, and once
\* the generator has ended it is that whole concatenation: nothing skipped,
\* duplicated or reordered.
C1_Concatenation ==
    \A c \in DOMAIN cursors :
        /\ IsPrefix(gens[c].out, AllItems(TableOf(c)))
        /\ gens[c].pc = "done" => gens[c].out = AllItems(TableOf(c))

\* A traversal of several pages, one of them with two items, has ended.
C1_Witness ==
    \E c \in DOMAIN cursors :
        /\ gens[c].pc = "done"
        /\ Len(backend) >= 2
        /\ \E i \in DOMAIN backend : backend[i]["Count"] >= 2
        /\ Len(gens[c].out) >= 3

\* C2: the first request of a traversal carries no ExclusiveStartKey, and the
\* request of fetch k+1 carries as ExclusiveStartKey the LastEvaluatedKey of
\* the response to fetch k, which is present.
C2_ContinuationThreading ==
    \A c \in DOMAIN cursors :
        LET f == gens[c].fetched
        IN  /\ f # <<>> => "ExclusiveStartKey" \notin DOMAIN f[1].params
            /\ \A k \in 1..(Len(f) - 1) :
                    /\ HasKey(f[k].response)
                    /\ "ExclusiveStartKey" \in DOMAIN f[k + 1].params
                    /\ f[k + 1].params["ExclusiveStartKey"] =
                           f[k].response["LastEvaluatedKey"]

\* A traversal has made a third fetch.
C2_Witness ==
    \E c \in DOMAIN cursors : Len(gens[c].fetched) >= 3

\* C3: a traversal makes no call after a response without LastEvaluatedKey,
\* never makes more calls than there are pages, and when it has ended it has
\* made exactly as many calls as there are pages, the last response being the
\* one without LastEvaluatedKey, whatever the number of items of that page.
C3_Termination ==
    \A c \in DOMAIN cursors :
        LET f == gens[c].fetched
        IN  /\ gens[c].pc \notin {"failed", "overrun"}
            /\ Len(f) <= Len(backend)
            /\ \A k \in DOMAIN f : ~HasKey(f[k].response) => k = Len(f)
            /\ gens[c].pc = "done" =>
                    /\ Len(f) = Len(backend)
                    /\ ~HasKey(f[Len(f)].response)
            /\ (gens[c].pc = "yielded" /\ ~HasKey(f[Len(f)].response)) =>
                    Len(f) = Len(backend)

\* A traversal of several pages has ended on a last page without items.
C3_Witness ==
    \E c \in DOMAIN cursors :
        /\ gens[c].pc = "done"
        /\ Len(backend) >= 2
        /\ Len(gens[c].fetched) = Len(backend)
        /\ backend[Len(backend)]["Count"] = 0

\* C4: a fetched page with Count = 0, no Items and a LastEvaluatedKey is
\* never the last fetch of the traversal: a further call was issued, carrying
\* that key as ExclusiveStartKey.
C4_EmptyPageContinues ==
    \A c \in DOMAIN cursors :
        LET f == gens[c].fetched
        IN  \A k \in DOMAIN f :
                (f[k].response["Count"] = 0 /\ f[k].response["Items"] = <<>>
                    /\ HasKey(f[k].response)) =>
                    /\ k < Len(f)
                    /\ f[k + 1].params["ExclusiveStartKey"] =
                           f[k].response["LastEvaluatedKey"]

\* A traversal has fetched an empty page that carries a key, and the page after it.
C4_Witness ==
    \E c \in DOMAIN cursors :
        \E k \in DOMAIN gens[c].fetched :
            /\ gens[c].fetched[k].response["Count"] = 0
            /\ HasKey(gens[c].fetched[k].response)
            /\ k < Len(gens[c].fetched)

\* C5: when the first traversal of a PagedQueryResult has ended, count is
\* the sum of the pages' Count, scanned the sum of their ScannedCount, and
\* pages the number of pages.
C5_CounterAccuracy ==
    \A c \in DOMAIN cursors :
        (gens[c].pc = "done" /\ gens[c].n = 1) =>
            /\ cursors[c].count = Sum([i \in DOMAIN backend |-> backend[i]["Count"]])
            /\ cursors[c].scanned =
                   Sum([i \in DOMAIN backend |-> backend[i]["ScannedCount"]])
            /\ cursors[c].pages = Len(backend)

\* A first traversal of several pages, which scanned more than they returned, has ended.
C5_Witness ==
    \E c \in DOMAIN cursors :
        /\ gens[c].pc = "done" /\ gens[c].n = 1
        /\ Len(backend) >= 2
        /\ cursors[c].count >= 2
        /\ cursors[c].scanned > cursors[c].count

\* C6: a generator obtained from a PagedQueryResult whose traversal has
\* ended yields no item and issues no remote call.
C6_SinglePass ==
    \A c \in DOMAIN cursors :
        gens[c].reiter => gens[c].out = <<>> /\ gens[c].fetched = <<>>

---------------------------------------------------------------------------
(* Properties of single page execution, checked under SpecSingle *)

\* C7: every call of single() issued exactly one remote call, whether or not
\* its response carries LastEvaluatedKey, and no iteration or read of the
\* results issued any: the calls made are as many as the results returned.
C7_SinglePage ==
    /\ Len(calls) = Len(singles)
    /\ \A i \in DOMAIN singles :
            /\ calls[i].via = "single"
            /\ "ExclusiveStartKey" \notin DOMAIN calls[i].params
            /\ singles[i].obj.result = backend[1]
            /\ singles[i].reads > 0 /\ singles[i].seen # <<>> =>
                    Len(singles[i].seen) = Len(backend[1]["Items"])

\* A result whose response carries a key was read twice, after one call.
C7_Witness ==
    /\ Len(singles) = 1 /\ Len(calls) = 1
    /\ HasKey(singles[1].obj.result)
    /\ singles[1].reads >= 2
    /\ singles[1].seen # <<>>

TheCall == calls[Len(calls)]

ExecutedQuery ==
    /\ last.name = "single" /\ err = "none"
    /\ ops[last.id].kind = "Query"

Entry(f, v) == [AttributeValueList |-> <<prepare_dynamo(f, v)>>]

\* C9 as stated: the KeyConditions a Query sends have one entry, for the
\* hash field, when no range value was supplied, and two entries, for the
\* hash field and the range field, when range(value) was called.
C9_AsStated ==
    ExecutedQuery =>
        LET op == ops[last.id]
            kc == TheCall.params["KeyConditions"]
        IN  IF op.range_value = NOT_PROVIDED
            THEN Cardinality(DOMAIN kc) = 1
            ELSE Cardinality(DOMAIN kc) = 2

\* C9, amended: one entry, for the hash field, when no range value was
\* supplied or the table declares no range key; two entries, for the hash
\* field and the range field, when range(value) was called and the table
\* declares a range key.  Each entry is {AttributeValueList: [v]} with v the
\* supplied value passed through the prepare_dynamo of its field.
C9_KeyConditions ==
    ExecutedQuery =>
        LET op == ops[last.id]
            kf == op.table.key_fields
            kc == TheCall.params["KeyConditions"]
        IN  /\ kc[kf[1].name] = Entry(kf[1], op.hash_value)
            /\ IF op.range_value # NOT_PROVIDED /\ Len(kf) >= 2
               THEN /\ DOMAIN kc = {kf[1].name, kf[2].name}
                    /\ Cardinality(DOMAIN kc) = 2
                    /\ kc[kf[2].name] = Entry(kf[2], op.range_value)
               ELSE DOMAIN kc = {kf[1].name}

\* A Query with a range value on a table with a range key was executed.
C9_Witness ==
    /\ ExecutedQuery
    /\ ops[last.id].range_value # NOT_PROVIDED
    /\ Len(ops[last.id].table.key_fields) = 2
    /\ Cardinality(DOMAIN TheCall.params["KeyConditions"]) = 2

---------------------------------------------------------------------------
(* Properties of configuration, checked under SpecConfig and SpecCopy *)

\* The builder's own parameters.
ParamsOf(o) == heap[ops[o].params]

\* C8: a call of select with a value outside its four modes, or of
\* consumed_capacity with a value outside its three, raises, issues no
\* remote call and leaves the parameters as they were; with a value inside,
\* it raises nothing and the parameters become the old ones with that value
\* under Select, respectively ReturnConsumedCapacity.
C8_Validation ==
    [][ /\ last'.name = "select" =>
              IF last'.arg \in {"ALL_ATTRIBUTES", "ALL_PROJECTED_ATTRIBUTES",
                                "COUNT", "SPECIFIC_ATTRIBUTES"}
              THEN /\ err' = "none"
                   /\ heap' = [heap EXCEPT ![ops[last'.id].params] =
                                  DictSet(@, "Select", last'.arg)]
                   /\ calls' = calls
              ELSE /\ err' = "AssertionError"
                   /\ heap' = heap
                   /\ calls' = calls
        /\ last'.name = "consumed_capacity" =>
              IF last'.arg \in {"INDEXES", "TOTAL", "NONE"}
              THEN /\ err' = "none"
                   /\ heap' = [heap EXCEPT ![ops[last'.id].params] =
                                  DictSet(@, "ReturnConsumedCapacity", last'.arg)]
                   /\ calls' = calls
              ELSE /\ err' = "AssertionError"
                   /\ heap' = heap
                   /\ calls' = calls ]_vars

\* select was refused on a builder that holds a Select and a capacity mode
\* set before.
C8_Witness ==
    /\ last.name = "select"
    /\ last.arg \notin {"ALL_ATTRIBUTES", "ALL_PROJECTED_ATTRIBUTES",
                         "COUNT", "SPECIFIC_ATTRIBUTES"}
    /\ err = "AssertionError"
    /\ "Select" \in DOMAIN ParamsOf(last.id)
    /\ "ReturnConsumedCapacity" \in DOMAIN ParamsOf(last.id)

\* C10: a call of limit, select, consumed_capacity or params on one builder
\* leaves the parameters of every other builder, its copies and the builder
\* it was copied from, as they were.
C10_CopyIndependence ==
    [][ last'.name \in {"limit", "select", "consumed_capacity", "params"} =>
            \A o \in DOMAIN ops :
                o # last'.id => heap'[ops[o].params] = heap[ops[o].params] ]_vars

\* After a copy, the original and the copy were each configured with a
\* parameter the other does not have.
C10_Witness ==
    /\ Len(ops) >= 2
    /\ "Limit" \in DOMAIN ParamsOf(1) /\ "Limit" \notin DOMAIN ParamsOf(2)
    /\ "Select" \in DOMAIN ParamsOf(2) /\ "Select" \notin DOMAIN ParamsOf(1)

---------------------------------------------------------------------------
(* Properties of copy, checked under SpecCopy *)

\* C11 (as stated): copy() on any builder, Scan or Query, returns without
\* error a new builder of the same kind, bound to the same session and table,
\* whose parameters equal those of the original at the moment of the copy.
C11_CopyReturns ==
    last.name = "copy" =>
        /\ err = "none"
        /\ ops[Len(ops)].kind = ops[last.id].kind
        /\ ops[Len(ops)].session = ops[last.id].session
        /\ ops[Len(ops)].table = ops[last.id].table
        /\ ops[Len(ops)].params # ops[last.id].params
        /\ ParamsOf(Len(ops)) = ParamsOf(last.id)

---------------------------------------------------------------------------
(* A traversal with the builder reconfigured between the pulls *)

\* Backends whose every page holds one item: the consumer gets control back
\* between any two fetches.
OneItemPages ==
    { b \in Backends : \A i \in DOMAIN b : b[i]["Count"] = 1 /\ b[i]["ScannedCount"] = 1 }

InitMutate ==
    /\ InitPaged
    /\ backend \in OneItemPages

\* The one traversal of the cursor.
FirstIter(c) ==
    /\ gens[c].pc = "none"
    /\ PagedIter(c)

NextMutate ==
    \/ \E c \in DOMAIN cursors : FirstIter(c)
    \/ \E c \in DOMAIN cursors : Pull(c)
    \/ \E c \in DOMAIN cursors : PullExhausted(c)
    \/ \E o \in DOMAIN ops : Limit(o, 1)
    \/ \E o \in DOMAIN ops : Select(o, "COUNT")
    \/ \E o \in DOMAIN ops : ConsumedCapacity(o, "TOTAL")
    \/ \E o \in DOMAIN ops : Params(o, [Limit |-> 1])
    \/ \E o \in DOMAIN ops, v \in RangeValues : Range(o, v)

SpecMutate == InitMutate /\ [][NextMutate]_vars

\* A request without its continuation key.
Base(request) ==
    [k \in DOMAIN request \ {"ExclusiveStartKey"} |-> request[k]]

\* C12: the first fetch of a traversal sends the parameters the builder has at
\* that moment, and every later fetch of the traversal sends the same
\* parameters apart from ExclusiveStartKey, whatever limit, select,
\* consumed_capacity, params or range did to the builder in between; and
\* these calls leave the generator and its dict as they were.
C12_SnapshotIsolation ==
    [][ /\ \A c \in DOMAIN gens' : \A k \in DOMAIN gens'[c].fetched :
              Base(gens'[c].fetched[k].params) =
                  IF gens[c].n = gens'[c].n /\ gens[c].fetched # <<>>
                  THEN Base(gens[c].fetched[1].params)
                  ELSE Base(heap'[ops[cursors[c].query].params])
        /\ last'.name \in {"limit", "select", "consumed_capacity", "params", "range"} =>
              /\ gens' = gens
              /\ \A c \in DOMAIN gens :
                    gens[c].params \in DOMAIN heap =>
                        heap'[gens[c].params] = heap[gens[c].params] ]_vars

\* The pull that fetched the second page, made after the builder was given a
\* Limit, a Select and a ReturnConsumedCapacity that the first fetch did not have.
C12_Witness ==
    \E c \in DOMAIN gens :
        /\ last.name = "next" /\ last.id = c
        /\ Len(gens[c].fetched) = 2 /\ gens[c].idx = 1 /\ gens[c].pc = "yielded"
        /\ {"Limit", "Select", "ReturnConsumedCapacity"} \subseteq
               DOMAIN heap[ops[cursors[c].query].params]
        /\ DOMAIN gens[c].fetched[2].params \cap
               {"Limit", "Select", "ReturnConsumedCapacity"} = {}

---------------------------------------------------------------------------
(* Traversals against a backend that refuses one of its pages *)

\* The exception of the client.
ClientError == "ClientError"

\* The backends that serve every page, and those that refuse one.
FailingBackends ==
    LET served == { b \in Backends : b[1]["ScannedCount"] = b[1]["Count"] + 1 }
    IN  served \cup
        UNION { { [b EXCEPT ![k] = [Error |-> ClientError]] : k \in DOMAIN b } :
                  b \in served }

InitFail ==
    /\ \E kind \in {"Scan", "Query"} : ops = <<NewOp(kind, TheTable, 1)>>
    /\ heap = InitHeap
    /\ cursors = <<PagedQueryResult_init(1)>>
    /\ gens = <<NoGen(1)>>
    /\ singles = <<>>
    /\ backend \in FailingBackends
    /\ calls = <<>>
    /\ err = "none"
    /\ last = [name |-> "all", id |-> 1, arg |-> ""]

SpecFail == InitFail /\ [][NextPaged]_vars

\* The requests and responses generator c got in the step, in order.
NewlyFetched(c) ==
    SubSeq(gens'[c].fetched, Len(gens[c].fetched) + 1, Len(gens'[c].fetched))

\* C13: a call the backend refuses ends the pull it was made in with the
\* exception of the backend, and is the last call of that pull (no retry);
\* the items yielded before stay yielded, the counters move by the pages
\* fetched before the failing call and not by the failing call; every later
\* pull on that generator ends with StopIteration, yields nothing and issues
\* no call.
C13_FailureSemantics ==
    [][ /\ \A i \in (Len(calls) + 1)..Len(calls') :
              ~Command(calls'[i].params).ok =>
                  /\ i = Len(calls')
                  /\ last'.name = "next" /\ last'.id = calls'[i].cursor
                  /\ err' = ClientError
                  /\ gens'[calls'[i].cursor].pc = "failed"
        /\ \A c \in DOMAIN gens :
              /\ (gens[c].pc # "failed" /\ gens'[c].pc = "failed") =>
                    /\ Len(calls') = Len(calls) + Len(NewlyFetched(c)) + 1
                    /\ ~Command(calls'[Len(calls')].params).ok
                    /\ gens'[c].out = gens[c].out
                    /\ cursors'[c].pages = cursors[c].pages + Len(NewlyFetched(c))
                    /\ cursors'[c].count = cursors[c].count +
                          Sum([k \in DOMAIN NewlyFetched(c) |->
                                  NewlyFetched(c)[k].response["Count"]])
                    /\ cursors'[c].scanned = cursors[c].scanned +
                          Sum([k \in DOMAIN NewlyFetched(c) |->
                                  NewlyFetched(c)[k].response["ScannedCount"]])
              /\ (gens[c].pc = "failed" /\ last'.name = "next" /\ last'.id = c) =>
                    /\ err' = "StopIteration"
                    /\ calls' = calls
                    /\ gens' = gens
                    /\ cursors' = cursors ]_vars

\* A pull on a generator that had yielded items and then met the refusal.
C13_Witness ==
    \E c \in DOMAIN gens :
        /\ last.name = "next" /\ last.id = c /\ err = "StopIteration"
        /\ gens[c].pc = "failed"
        /\ gens[c].out # <<>>
        /\ cursors[c].pages >= 2

\* The responses of the calls made through cursor c that the backend served,
\* in the order of the calls.
Served(c) ==
    LET mine == SelectSeq(calls, LAMBDA r : r.cursor = c /\ Command(r.params).ok)
    IN  [i \in DOMAIN mine |-> Command(mine[i].params).response]

\* C18: in every state, pages is the number of calls through the cursor that
\* the backend served, count and scanned are the sums of Count and
\* ScannedCount of their responses (a refused call adds nothing), and
\* last_page is true exactly when there was such a call and the response of
\* the most recent one has no LastEvaluatedKey.
C18_CounterInvariant ==
    \A c \in DOMAIN cursors :
        LET S == Served(c)
        IN  /\ cursors[c].pages = Len(S)
            /\ cursors[c].count = Sum([i \in DOMAIN S |-> S[i]["Count"]])
            /\ cursors[c].scanned = Sum([i \in DOMAIN S |-> S[i]["ScannedCount"]])
            /\ cursors[c].last_page =
                  (S # <<>> /\ "LastEvaluatedKey" \notin DOMAIN S[Len(S)])

\* A refused call after served ones: more calls than pages, and the counters
\* hold what the served pages gave.
C18_Witness ==
    \E c \in DOMAIN cursors :
        /\ err = ClientError /\ last.name = "next" /\ last.id = c
        /\ cursors[c].pages >= 2
        /\ cursors[c].count >= 1
        /\ cursors[c].scanned > cursors[c].count
        /\ Len(calls) > cursors[c].pages

---------------------------------------------------------------------------
(* From the builder to the first item: all(), iter() and the pulls *)

\* QueryBase.all(self)
all(o) == PagedQueryResult_init(o)

All(o) ==
    /\ o \in DOMAIN ops
    /\ \A c \in DOMAIN cursors : cursors[c].query # o
    /\ cursors' = Append(cursors, all(o))
    /\ gens' = Append(gens, NoGen(Len(cursors) + 1))
    /\ Did("all", Len(cursors) + 1, "", "none")
    /\ UNCHANGED <<ops, heap, singles, backend, calls>>

\* QueryBase.__iter__(self): iter(self.all())
QueryBase_iter(o) ==
    /\ o \in DOMAIN ops
    /\ \A c \in DOMAIN cursors : cursors[c].query # o
    /\ cursors' = Append(cursors, all(o))
    /\ gens' = Append(gens, NewGen(Len(cursors) + 1, NoGen(Len(cursors) + 1)))
    /\ Did("op_iter", Len(cursors) + 1, "", "none")
    /\ UNCHANGED <<ops, heap, singles, backend, calls>>

InitLazy ==
    /\ \E kind \in {"Scan", "Query"} : ops = <<NewOp(kind, TheTable, 1)>>
    /\ heap = InitHeap
    /\ cursors = <<>>
    /\ gens = <<>>
    /\ singles = <<>>
    /\ backend \in Backends
    /\ calls = <<>>
    /\ err = "none"
    /\ last = [name |-> "init", id |-> 1, arg |-> ""]

NextLazy ==
    \/ \E o \in DOMAIN ops : All(o)
    \/ \E o \in DOMAIN ops : QueryBase_iter(o)
    \/ \E c \in DOMAIN cursors : PagedIter(c)
    \/ \E c \in DOMAIN cursors : Pull(c)
    \/ \E c \in DOMAIN cursors : PullExhausted(c)

SpecLazy == InitLazy /\ [][NextLazy]_vars

\* The number of items of the pages of a list of fetches.
ItemsIn(fetches) ==
    Sum([k \in DOMAIN fetches |-> fetches[k].response["Count"]])

\* C14: all() and iter() issue no call; a call is issued only by a pull, and
\* only when the generator has nothing left to yield: the page it held was
\* yielded to its last item (or nothing was fetched yet), every page fetched
\* on the way to the one that yields was empty, and the pull hands out the
\* first item of the page it fetched last.  So when the consumer holds item j
\* of page k, exactly the pages 1..k were fetched.
C14_Laziness ==
    [][ /\ last'.name \in {"all", "iter", "op_iter"} => calls' = calls
        /\ calls' # calls => last'.name = "next"
        /\ \A c \in DOMAIN gens :
              LET new == NewlyFetched(c)
                  held == QueryResult_iter(gens[c].results, ops[cursors[c].query].table)
              IN  /\ (last'.name = "next" /\ last'.id = c) =>
                          Len(calls') = Len(calls) + Len(new)
                  /\ new # <<>> =>
                        /\ last'.name = "next" /\ last'.id = c
                        /\ gens[c].pc = "yielded" => gens[c].idx = Len(held)
                        /\ gens[c].pc = "created" => gens[c].fetched = <<>>
                        /\ \A k \in 1..(Len(new) - 1) : new[k].response["Count"] = 0
                        /\ gens'[c].pc = "yielded" => gens'[c].idx = 1
                  /\ gens'[c].pc = "yielded" =>
                        /\ gens'[c].idx >= 1
                        /\ Len(gens'[c].out) =
                              ItemsIn(SubSeq(gens'[c].fetched, 1,
                                             Len(gens'[c].fetched) - 1)) + gens'[c].idx
        ]_vars

\* The consumer holds the last item of the first page of a backend with more
\* pages, and one call was made.
C14_Witness ==
    \E c \in DOMAIN gens :
        /\ gens[c].pc = "yielded" /\ gens[c].n = 1
        /\ Len(backend) >= 2
        /\ gens[c].idx = backend[1]["Count"]
        /\ Len(gens[c].fetched) = 1
        /\ Len(calls) = 1

---------------------------------------------------------------------------
(* Executions with the session rebound between them *)

\* What the session can make table names resolve with.
Prefixes == {"dev", "prod"}

\* The session is reconfigured: table names resolve differently from now on.
Rebind(prefix) ==
    /\ heap[TheSession].prefix # prefix
    /\ heap' = [heap EXCEPT ![TheSession] = [prefix |-> prefix]]
    /\ Did("rebind", 0, prefix, "none")
    /\ UNCHANGED <<ops, cursors, gens, singles, backend, calls>>

InitBind ==
    /\ \E kind \in {"Scan", "Query"}, t \in {TheTable, TheIndex} :
            ops = <<NewOp(kind, t, 1)>>
    /\ heap = InitHeap
    /\ cursors = <<PagedQueryResult_init(1)>>
    /\ gens = <<NoGen(1)>>
    /\ singles = <<>>
    /\ backend \in OneItemPages
    /\ calls = <<>>
    /\ err = "none"
    /\ last = [name |-> "all", id |-> 1, arg |-> ""]

NextBind ==
    \/ \E c \in DOMAIN cursors : FirstIter(c)
    \/ \E c \in DOMAIN cursors : Pull(c)
    \/ \E c \in DOMAIN cursors : PullExhausted(c)
    \/ \E o \in DOMAIN ops : Single(o)
    \/ \E p \in Prefixes : Rebind(p)

SpecBind == InitBind /\ [][NextBind]_vars

\* C15 (as stated): every fetch of a traversal carries the table name the
\* session resolves to when that fetch is made.
C15_AsStated ==
    \A c \in DOMAIN gens : \A k \in DOMAIN gens[c].fetched :
        gens[c].fetched[k].params["TableName"] = gens[c].fetched[k].bound

\* C15 (amended): TableName and IndexName are resolved when an execution
\* starts: every single() call carries the table name the session resolves
\* to at that call, and every fetch of a traversal carries the TableName and
\* the IndexName resolved at the first fetch of the traversal, whatever the
\* session resolves to when the later fetches are made.
C15_BoundAtStart ==
    /\ \A i \in DOMAIN calls :
          calls[i].via = "single" => calls[i].params["TableName"] = calls[i].bound
    /\ \A c \in DOMAIN gens : \A k \in DOMAIN gens[c].fetched :
          LET first == gens[c].fetched[1]
              this == gens[c].fetched[k]
          IN  /\ first.params["TableName"] = first.bound
              /\ this.params["TableName"] = first.bound
              /\ "IndexName" \in DOMAIN this.params <=>
                    ops[cursors[c].query].index # <<>>
              /\ "IndexName" \in DOMAIN this.params =>
                    this.params["IndexName"] = ops[cursors[c].query].index[1].name

\* The session was rebound between the first and the second fetch of a
\* traversal, and again before a single() call.
C15_Witness ==
    \E c \in DOMAIN gens :
        /\ Len(gens[c].fetched) >= 2
        /\ gens[c].fetched[2].bound # gens[c].fetched[1].bound
        /\ last.name = "single" /\ err = "none"
        /\ calls[Len(calls)].bound # gens[c].fetched[2].bound

---------------------------------------------------------------------------
(* The deprecated index(name) *)

\* QueryBase.index(self, name), lines 147-154: the body of the method.
QueryBase_index(op, name, h) ==
    [ok |-> TRUE, h |-> [h EXCEPT ![op.params] = DictSet(@, "IndexName", name)]]

\* op.index(name).  __init__ assigns the attribute index of the instance (line
\* 101 or 104), and the lookup finds it before the method of the class: what
\* is called is None or the Index object, which raises TypeError.
index(op, name, h) ==
    IF "index" \in DOMAIN op
    THEN [ok |-> FALSE, error |-> "TypeError", h |-> h]
    ELSE QueryBase_index(op, name, h)

Index(o, name) ==
    /\ o \in DOMAIN ops
    /\ Configured("index", o, name, index(ops[o], name, heap))

\* The names index is called with: the name of the Index object and another.
IndexNames == {TheIndex.name, "by_other"}

NextIndex ==
    \/ \E o \in DOMAIN ops, name \in IndexNames : Index(o, name)
    \/ \E o \in DOMAIN ops : Limit(o, 1)
    \/ \E o \in DOMAIN ops : Select(o, "COUNT")
    \/ \E o \in DOMAIN ops : ConsumedCapacity(o, "TOTAL")
    \/ \E o \in DOMAIN ops : Single(o)

SpecIndex == InitConfig /\ [][NextIndex]_vars

\* C16 (as stated): index(name) returns without error and leaves IndexName =
\* name in the parameters of the builder.
C16_IndexSetsName ==
    last.name = "index" =>
        /\ err = "none"
        /\ "IndexName" \in DOMAIN ParamsOf(last.id)
        /\ ParamsOf(last.id)["IndexName"] = last.arg

---------------------------------------------------------------------------
(* A builder and its copy, each traversed once, the pulls interleaved *)

\* The one copy of the first builder.
CopyOnce(o) ==
    /\ Len(ops) = 1
    /\ Copy(o)

InitTraverse ==
    /\ \E kind \in {"Scan", "Query"}, t \in {TheTable, TheIndex} :
            ops = <<NewOp(kind, t, 1)>>
    /\ heap = InitHeap
    /\ cursors = <<>>
    /\ gens = <<>>
    /\ singles = <<>>
    /\ backend \in OneItemPages
    /\ calls = <<>>
    /\ err = "none"
    /\ last = [name |-> "init", id |-> 1, arg |-> ""]

NextTraverse ==
    \/ \E o \in DOMAIN ops : CopyOnce(o)
    \/ \E o \in DOMAIN ops : Limit(o, 1)
    \/ \E o \in DOMAIN ops : All(o)
    \/ \E c \in DOMAIN cursors : FirstIter(c)
    \/ \E c \in DOMAIN cursors : Pull(c)
    \/ \E c \in DOMAIN cursors : PullExhausted(c)

SpecTraverse == InitTraverse /\ [][NextTraverse]_vars

\* C17: with the traversal of a builder and the traversal of its copy
\* interleaved pull by pull, each traversal is what it is alone: its k-th
\* fetch gets page k, carries the parameters of its own first fetch and the
\* continuation key of its own fetch k-1 (none for k = 1), its items are the
\* items of the pages in order, and its cursor counts its own pages only.
C17_CopiesIndependent ==
    \A c \in DOMAIN gens :
        LET f == gens[c].fetched
        IN  /\ \A k \in DOMAIN f :
                  /\ f[k].response = backend[k]
                  /\ Base(f[k].params) = Base(f[1].params)
                  /\ "ExclusiveStartKey" \in DOMAIN f[k].params <=> k > 1
                  /\ k > 1 => f[k].params["ExclusiveStartKey"] =
                                  f[k - 1].response["LastEvaluatedKey"]
                  /\ "Limit" \in DOMAIN f[k].params =>
                        "Limit" \in DOMAIN ParamsOf(cursors[c].query)
            /\ IsPrefix(gens[c].out, AllItems(TableOf(c)))
            /\ Len(gens[c].out) =
                  IF gens[c].pc = "done" THEN ItemsIn(f)
                  ELSE IF f = <<>> THEN 0
                  ELSE ItemsIn(SubSeq(f, 1, Len(f) - 1)) + gens[c].idx
            /\ cursors[c].pages = Len(f)
            /\ cursors[c].count = ItemsIn(f)
            /\ cursors[c].scanned =
                  Sum([k \in DOMAIN f |-> f[k].response["ScannedCount"]])

\* The two traversals took turns: three calls in a row alternate between the
\* cursor of the builder and the cursor of its copy, one of the two builders
\* has a Limit the other has not, and both traversals ran to their end.
C17_Witness ==
    /\ Len(ops) = 2 /\ Len(cursors) = 2
    /\ cursors[1].query # cursors[2].query
    /\ ("Limit" \in DOMAIN ParamsOf(1)) # ("Limit" \in DOMAIN ParamsOf(2))
    /\ gens[1].pc = "done" /\ gens[2].pc = "done"
    /\ \E i \in DOMAIN calls :
          /\ i + 2 \in DOMAIN calls
          /\ calls[i].cursor # calls[i + 1].cursor
          /\ calls[i + 1].cursor # calls[i + 2].cursor

---------------------------------------------------------------------------
(* Executions one after the other: traversals run to their end or left     *)
(* where they are, and single() calls                                      *)

\* all() on a builder once more: a new cursor.  The cursors obtained before
\* are left where they are.
AllFresh(o) ==
    /\ o \in DOMAIN ops
    /\ cursors # <<>>
    /\ Len(cursors) < MaxIters
    /\ cursors' = Append(cursors, all(o))
    /\ gens' = Append(gens, NoGen(Len(cursors) + 1))
    /\ Did("all", Len(cursors) + 1, "", "none")
    /\ UNCHANGED <<ops, heap, singles, backend, calls>>

\* The cursor obtained last.
Latest(c) == c = Len(cursors)

\* limit() before anything was executed.
LimitFirst(o) ==
    /\ calls = <<>>
    /\ Limit(o, 1)

\* The one single() call.
SingleOnce(o) ==
    /\ singles = <<>>
    /\ Single(o)

NextExecute ==
    \/ \E o \in DOMAIN ops : LimitFirst(o)
    \/ \E o \in DOMAIN ops : SingleOnce(o)
    \/ \E o \in DOMAIN ops : All(o)
    \/ \E o \in DOMAIN ops : AllFresh(o)
    \/ \E c \in DOMAIN cursors : Latest(c) /\ FirstIter(c)
    \/ \E c \in DOMAIN cursors : Latest(c) /\ Pull(c)
    \/ \E c \in DOMAIN cursors : Latest(c) /\ PullExhausted(c)

SpecExecute == InitTraverse /\ [][NextExecute]_vars

\* The keys execution writes into the dict of the builder.
ExecutionKeys == {"TableName", "IndexName", "KeyConditions"}

\* C19: no builder ever has ExclusiveStartKey in its parameters (none is
\* injected here), the first fetch of every traversal carries none, and a
\* step of execution (all, iter, a pull, single) adds to the parameters of a
\* builder nothing but TableName, IndexName and KeyConditions and changes no
\* other entry.
C19_NoWriteBack ==
    [][ /\ \A o \in DOMAIN ops' :
              "ExclusiveStartKey" \notin DOMAIN heap'[ops'[o].params]
        /\ \A c \in DOMAIN gens' :
              gens'[c].fetched # <<>> =>
                  "ExclusiveStartKey" \notin DOMAIN gens'[c].fetched[1].params
        /\ last'.name \in {"all", "iter", "next", "single"} =>
              \A o \in DOMAIN ops :
                  LET old == heap[ops[o].params]
                      new == heap'[ops[o].params]
                  IN  /\ DOMAIN old \subseteq DOMAIN new
                      /\ DOMAIN new \ DOMAIN old \subseteq ExecutionKeys
                      /\ \A k \in DOMAIN old \ ExecutionKeys : new[k] = old[k]
        ]_vars

\* After a traversal run to its end over several pages and a single() call, a
\* new cursor of the same builder made its first fetch.
C19_Witness ==
    /\ Len(cursors) >= 2
    /\ cursors[1].query = cursors[2].query
    /\ gens[1].pc = "done" /\ Len(gens[1].fetched) >= 2
    /\ singles # <<>>
    /\ gens[2].pc = "yielded" /\ Len(gens[2].fetched) = 1
    /\ last.name = "next" /\ last.id = 2

---------------------------------------------------------------------------
(* A builder and its copy, executed *)

NextCopyRun ==
    \/ \E o \in DOMAIN ops : Len(ops) = 1 /\ LimitFirst(o)
    \/ \E o \in DOMAIN ops : CopyOnce(o)
    \/ \E o \in DOMAIN ops : Single(o)
    \/ \E o \in DOMAIN ops : All(o)
    \/ \E c \in DOMAIN cursors : Latest(c) /\ FirstIter(c)
    \/ \E c \in DOMAIN cursors : Latest(c) /\ Pull(c)
    \/ \E c \in DOMAIN cursors : Latest(c) /\ PullExhausted(c)

SpecCopyRun == InitTraverse /\ [][NextCopyRun]_vars

\* C20 (as stated): when the first builder is a Scan constructed against an
\* Index object, every request of its copy carries the IndexName of that
\* index, the TableName the session resolves to, and a Limit exactly when the
\* original has one, whether the original was executed before the copy was
\* made or not.
C20_CopySendsSame ==
    \A i \in DOMAIN calls :
        (calls[i].op = 2 /\ ops[1].kind = "Scan" /\ ops[1].index # <<>>) =>
            /\ calls[i].params["TableName"] = calls[i].bound
            /\ "Limit" \in DOMAIN calls[i].params <=> "Limit" \in DOMAIN ParamsOf(1)
            /\ "IndexName" \in DOMAIN calls[i].params
            /\ calls[i].params["IndexName"] = ops[1].index[1].name
=============================================================================
